---- MODULE Spec2Model ----
(***************************************************************************)
(* smallsh (src/main.c): the read-parse-dispatch-reap loop of the shell,   *)
(* its child processes and the SIGTSTP handler, as a state machine.        *)
(*                                                                         *)
(* Text is a sequence of one-character strings.  A pointer is text or one  *)
(* of the marker values NULL, UNINIT and GARBAGE.                          *)
(***************************************************************************)
EXTENDS Integers, Sequences, FiniteSets, TLC

(***************************************************************************)
(* Bounds of the model.                                                    *)
(***************************************************************************)
MaxTail == 2        \* tokens that follow the program name on an input line
MaxOperands == 1    \* tokens that follow the name of a built-in
MaxJobs == 2        \* job-table slots in use at once: no fork beyond that
MaxPid == 2         \* process identifiers the OS hands out: 1..MaxPid
MaxChars == 5       \* characters of a raw line handed to parseInput alone
MaxExpand == 5      \* characters of a text handed to expandVariable alone

(***************************************************************************)
(* Program constants.                                                      *)
(***************************************************************************)
JobSlots == 20      \* slots of bgPids that registration and reaping visit
ArgsSize == 514     \* elements of commandStruct.args
SigTermCode == 2    \* the code stored for a signalled foreground child

NULL == <<"NULL">>
\* memory that malloc returned and nobody wrote
UNINIT == <<"UNINIT">>
\* a pointer that is neither NULL nor the address of text of this program
GARBAGE == <<"GARBAGE">>
\* what reading a pointer variable can give
Read(ptr) == IF ptr = UNINIT THEN {NULL, GARBAGE} ELSE {ptr}

sExit == <<"e", "x", "i", "t">>
sCd == <<"c", "d">>
sStatus == <<"s", "t", "a", "t", "u", "s">>
sLs == <<"l", "s">>
sHash == <<"#">>
sLt == <<"<">>
sGt == <<">">>
sAmp == <<"&">>
sFile == <<"f">>
sPid == <<"$", "$">>
sDevNull == <<"/", "d", "e", "v", "/", "n", "u", "l", "l">>

(***************************************************************************)
(* strtok_r(input, " \n", &saveptr): the tokens of a line are its maximal  *)
(* runs of characters other than space and newline.  The text is split in  *)
(* halves to find them, so that a line of a thousand characters is within  *)
(* reach.                                                                  *)
(***************************************************************************)
IsDelim(c) == c = " " \/ c = "\n"

\* a token starts at position k: strtok_r skipped the delimiters before it
TokenStart(s, k) == ~IsDelim(s[k]) /\ (k = 1 \/ IsDelim(s[k - 1]))

\* where the token that starts at or before position k ends
RECURSIVE TokenEnd(_, _)
TokenEnd(s, k) ==
    IF k <= Len(s) /\ ~IsDelim(s[k]) THEN TokenEnd(s, k + 1) ELSE k

\* the tokens that start at the positions lo..hi, in their order
RECURSIVE TokensIn(_, _, _)
TokensIn(s, lo, hi) ==
    IF lo > hi THEN <<>>
    ELSE IF lo = hi
         THEN IF TokenStart(s, lo) THEN <<SubSeq(s, lo, TokenEnd(s, lo) - 1)>> ELSE <<>>
         ELSE LET mid == (lo + hi) \div 2
              IN  TokensIn(s, lo, mid) \o TokensIn(s, mid + 1, hi)

\* the tokens the calls of strtok_r hand out for the text from position k on
Tokens(s, k) == TokensIn(s, k, Len(s))

\* the k-th token strtok_r hands out, NULL once the line is exhausted
Tok(toks, k) == IF k <= Len(toks) THEN toks[k] ELSE NULL

IsOperator(t) == t = sLt \/ t = sGt \/ t = sAmp

(***************************************************************************)
(* expandVariable (src/main.c:377-429): every "$$" found by a left to      *)
(* right scan is replaced by the decimal text of getpid().                 *)
(***************************************************************************)
ShellPid == 42

Digit(d) == CASE d = 0 -> "0" [] d = 1 -> "1" [] d = 2 -> "2" [] d = 3 -> "3"
              [] d = 4 -> "4" [] d = 5 -> "5" [] d = 6 -> "6" [] d = 7 -> "7"
              [] d = 8 -> "8" [] OTHER -> "9"

RECURSIVE Decimal(_)
Decimal(n) == IF n < 10 THEN <<Digit(n)>> ELSE Decimal(n \div 10) \o <<Digit(n % 10)>>

\* lines 412-425 with a copy of the rest after the first replacement
\* strstr(&input[k], "$$"): the position of the first "$$" from k on, or
\* one past the end of the text if there is none
Strstr(s, k) ==
    LET found == {j \in k..(Len(s) - 1) : s[j] = "$" /\ s[j + 1] = "$"}
    IN  IF found = {} THEN Len(s) + 1
        ELSE CHOOSE j \in found : \A i \in found : j <= i

ExpandFrom_First(s, k, pidString) ==
    LET m == Strstr(s, k)
    IN  IF m > Len(s) THEN SubSeq(s, k, Len(s))
        ELSE SubSeq(s, k, m - 1) \o pidString \o SubSeq(s, m + 2, Len(s))

\* lines 412-425: the characters before the next "$$" are copied one by
\* one, the "$$" is replaced, and the loop goes on behind it
RECURSIVE ExpandFrom(_, _, _)
ExpandFrom(s, k, pidString) ==
    LET m == Strstr(s, k)
    IN  IF m > Len(s) THEN SubSeq(s, k, Len(s))
        ELSE SubSeq(s, k, m - 1) \o pidString \o ExpandFrom(s, m + 2, pidString)

\* line 385: char pidString[sizeof(int) + 1]
PidStringSize == 5

\* the interpreter is killed (stack protector, fortified sprintf)
ABORT == <<"ABORT">>

\* line 386: sprintf(pidString, "%d", getpid()) writes the digits and a
\* terminator.  Beyond the array it writes over what lies next to it on the
\* stack: the text may stay whole, or be cut at the end of the array by a
\* later store to the neighbour, or the overflow is detected and the
\* interpreter is killed.
PidStrings(pid) ==
    IF Len(Decimal(pid)) + 1 <= PidStringSize THEN {Decimal(pid)}
    ELSE {Decimal(pid), SubSeq(Decimal(pid), 1, PidStringSize), ABORT}

\* lines 397-405: the number of "$$" the counting loop finds
RECURSIVE CountFrom(_, _)
CountFrom(s, k) ==
    LET m == Strstr(s, k)
    IN  IF m > Len(s) THEN 0 ELSE 1 + CountFrom(s, m + 2)

expandVariable(s, pidString) == ExpandFrom(s, 1, pidString)

(***************************************************************************)
(* parseInput (src/main.c:298-367).  The struct comes from malloc (line    *)
(* 300) and parseInput writes iRedirect and oRedirect only when the line   *)
(* has the operator: otherwise the field stays UNINIT.                     *)
(*                                                                         *)
(* Lines 319-341 write args[0..n] for a line with n tokens before its      *)
(* first operator, whatever n is.  In the struct (lines 24-30) iRedirect   *)
(* lies where args[ArgsSize] would be and oRedirect where args[ArgsSize+1] *)
(* would be; a write further on goes over background and over the end of   *)
(* the block malloc returned.                                              *)
(***************************************************************************)

\* line 328: the argument loop stops at the end of the line or at an operator
ArgEnd(toks, k) ==
    LET stops == {j \in k..Len(toks) : IsOperator(toks[j])}
    IN  IF stops = {} THEN Len(toks) + 1
        ELSE CHOOSE j \in stops : \A i \in stops : j <= i

\* line 356 without its test of the flag
BackgroundMarker_IgnoresFlag(token, fg) == token = sAmp

\* line 356: the token asks for background execution
BackgroundMarker(token, fg) == token = sAmp /\ fg = FALSE

\* lines 343-364, one turn of the do-while loop per call; k is the position
\* of the current token.  fault: strlen() was handed the NULL that strtok_r
\* returns when "<" or ">" is the last token.
RECURSIVE ParseRest(_, _, _, _)
ParseRest(cmd, toks, k, fg) ==
    LET t == Tok(toks, k)
        n == Tok(toks, k + 1)
    IN  IF t = sLt
        THEN IF n = NULL
             THEN [cmd EXCEPT !.iRedirect = GARBAGE, !.fault = TRUE]
             ELSE LET c1 == [cmd EXCEPT !.iRedirect = n]
                  IN  IF Tok(toks, k + 2) # NULL THEN ParseRest(c1, toks, k + 2, fg) ELSE c1
        ELSE IF t = sGt
        THEN IF n = NULL
             THEN [cmd EXCEPT !.oRedirect = GARBAGE, !.fault = TRUE]
             ELSE LET c1 == [cmd EXCEPT !.oRedirect = n]
                  IN  IF Tok(toks, k + 2) # NULL THEN ParseRest(c1, toks, k + 2, fg) ELSE c1
        ELSE LET c1 == IF BackgroundMarker(t, fg) THEN [cmd EXCEPT !.background = TRUE]
                       ELSE cmd
             IN  IF n # NULL THEN ParseRest(c1, toks, k + 1, fg) ELSE c1

\* the NULL commandStruct pointer (a blank line), as a record
NullCommand == [command |-> NULL, args |-> <<>>, iRedirect |-> NULL,
                oRedirect |-> NULL, background |-> FALSE, fault |-> FALSE]

\* what lines 319-341 write at position i of args (from 0), n tokens stored
ArgWritten(toks, n, i) == IF i < n THEN toks[i + 1] ELSE NULL

\* what is in the field that lies at position i of args when line 343 is
\* reached
FieldAfterArgs(toks, n, i) == IF n >= i THEN ArgWritten(toks, n, i) ELSE UNINIT

\* the number of elements lines 319-341 write from args[0] on, the null
\* pointer of line 341 counted in
ArgsCount(toks) == IF toks = <<>> THEN 0 ELSE ArgEnd(toks, 2)

parseInput(text, fg) ==
    LET toks == Tokens(text, 1)
        e == ArgEnd(toks, 2)
        n == e - 1
    IN  IF toks = <<>> THEN NullCommand
        ELSE ParseRest([command |-> toks[1],
                        args |-> IF n < ArgsSize THEN SubSeq(toks, 1, n) \o <<NULL>>
                                 ELSE SubSeq(toks, 1, ArgsSize),
                        iRedirect |-> FieldAfterArgs(toks, n, ArgsSize),
                        oRedirect |-> FieldAfterArgs(toks, n, ArgsSize + 1),
                        background |-> FALSE,
                        fault |-> n >= ArgsSize + 2],
                       toks, e, fg)

\* the argument vector execvp reads at commandLine->args (line 239): the
\* elements up to the first null pointer, in the array and past its end
Argv(cmd) ==
    IF cmd.args[Len(cmd.args)] = NULL THEN cmd.args
    ELSE IF cmd.iRedirect = NULL THEN cmd.args \o <<NULL>>
    ELSE IF cmd.oRedirect = NULL THEN cmd.args \o <<cmd.iRedirect, NULL>>
    ELSE cmd.args \o <<cmd.iRedirect, cmd.oRedirect, GARBAGE>>

(***************************************************************************)
(* The input lines of the interpreter: the blank line, the comment line,   *)
(* a program name with "$$" or with up to MaxTail tokens after it, a       *)
(* built-in with up to MaxOperands tokens after it; single spaces between  *)
(* the tokens and a newline at the end (fgets keeps it).                   *)
(***************************************************************************)
Builtins == {sExit, sCd, sStatus}
TailTokens == {sLt, sGt, sAmp, sFile}
Tails(max) == UNION {[1..n -> TailTokens] : n \in 0..max}

RECURSIVE Join(_)
Join(ts) == IF ts = <<>> THEN <<>> ELSE <<" ">> \o Head(ts) \o Join(Tail(ts))

Lines ==
    {<<"\n">>, sHash \o <<"\n">>, sLs \o <<" ">> \o sPid \o <<"\n">>}
        \cup {sLs \o Join(t) \o <<"\n">> : t \in Tails(MaxTail)}
        \cup {f \o Join(t) \o <<"\n">> : f \in Builtins, t \in Tails(MaxOperands)}

(***************************************************************************)
(* Wait statuses, as WIFEXITED/WEXITSTATUS and WIFSIGNALED/WTERMSIG decode *)
(* them.                                                                   *)
(***************************************************************************)
NoStatus == [kind |-> "none", code |-> 0]
Exited(c) == [kind |-> "exited", code |-> c]
Signaled(n) == [kind |-> "signaled", code |-> n]
\* the signals that end a program here (SIGTERM)
KillSignals == {15}
\* what a program can end with
EndStatuses == {Exited(0), Exited(1)} \cup {Signaled(n) : n \in KillSignals}
\* what an int that waitpid never wrote can decode to
IndeterminateStatuses == EndStatuses \cup {NoStatus}

Msg(t, p, c) == [text |-> t, pid |-> p, code |-> c]

Pids == 1..MaxPid
\* stored: lines 259-265 wrote the pid of this child into a slot of bgPids
FreeProc == [st |-> "free", bg |-> FALSE, stored |-> FALSE, status |-> NoStatus]

(***************************************************************************)
(* The state of the interpreter and of its children.                       *)
(***************************************************************************)
VARIABLES
    fgOnly,       \* the global of line 13
    pc,           \* where main is: "prompt", "parsed", "parent", "reap", "ended"
    input,        \* the line getInput returned in this iteration
    fgOnlyArg,    \* the value parseInput was given for its fgOnly parameter
    commandLine,  \* the struct parseInput returned (NullCommand: none)
    bgPids,       \* bgPids[0..JobSlots-1]; the rest of the array stays 0
    statusText,
    statusCode,
    proc,         \* the child processes, by pid
    childPid,     \* the local of executeCommand
    child,        \* what the child forked in this iteration did before exec
    out,          \* what the latest step of main printed with printf
    sigOut,       \* what the latest run of the handler wrote with write()
    ended,        \* "no", or how the interpreter ended: "exit", "fork", "segv",
                  \* "abort"
    killed,       \* the pids exitShell sent SIGKILL to
    expandedInput,   \* main's expandedInput: what expandVariable returned
    shellPid,        \* getpid() of the interpreter
    SIGTSTP_action,  \* the interpreter's disposition of SIGTSTP (lines 462-468)
    SIGINT_action    \* the interpreter's disposition of SIGINT (lines 471-477)

\* what main sets up before its loop
attrs == <<shellPid, SIGTSTP_action, SIGINT_action>>

vars == <<fgOnly, pc, input, fgOnlyArg, commandLine, bgPids, statusText, statusCode,
          proc, childPid, child, out, sigOut, ended, killed, expandedInput, attrs>>

(***************************************************************************)
(* The child's side of executeCommand (src/main.c:174-244).  env is what   *)
(* the OS answers: whether the named input and output files open and       *)
(* whether execvp finds the program.                                       *)
(***************************************************************************)
INHERIT == <<"INHERIT">>
Envs == [openIn : BOOLEAN, openOut : BOOLEAN, exec : BOOLEAN]

\* open(): a descriptor, or -1; the null device always opens
Open(path, ok, fd) == IF path = sDevNull \/ ok THEN fd ELSE -1

\* dup2(): -1 for an invalid descriptor, else the new descriptor
Dup2(oldfd, newfd) == IF oldfd = -1 THEN -1 ELSE newfd

\* lines 208, 233 without the test of dup2's result
DupFailed_Unchecked(result) == FALSE

\* lines 208, 233
DupFailed(result) == result = -1

\* lines 189, 214: the stream is redirected
Redirects(background, redirect) == background = TRUE \/ redirect # NULL

RedirectPath(redirect) == IF redirect # NULL THEN redirect ELSE sDevNull

\* line 183 without its test
ChildSigint_Always(background, inherited) == "default"

\* lines 183-186: SIGINT in the child
ChildSigint(background, inherited) ==
    IF background = FALSE THEN "default" ELSE inherited

NoChild == [pid |-> 0, background |-> FALSE, sigtstp |-> "handler", sigint |-> "ignore",
            fd0 |-> INHERIT, fd1 |-> INHERIT, inputFD |-> 0, outputFD |-> 0,
            diag |-> {}, execd |-> FALSE, exit |-> 0]

RunChild(pid, cmd, env) ==
    LET c0 == [NoChild EXCEPT !.pid = pid, !.background = cmd.background,
                              !.sigtstp = "ignore",
                              !.sigint = ChildSigint(cmd.background, SIGINT_action)]
        \* lines 189-211
        inFD == Open(RedirectPath(cmd.iRedirect), env.openIn, 3)
        c1 == IF ~Redirects(cmd.background, cmd.iRedirect) THEN c0
              ELSE LET d == IF inFD = -1 THEN {"cannot open for input"} ELSE {}
                   IN  IF DupFailed(Dup2(inFD, 0))
                       THEN [c0 EXCEPT !.inputFD = inFD, !.diag = d, !.exit = 1]
                       ELSE [c0 EXCEPT !.inputFD = inFD, !.diag = d,
                                       !.fd0 = RedirectPath(cmd.iRedirect)]
        \* lines 214-236
        outFD == Open(RedirectPath(cmd.oRedirect), env.openOut,
                      IF c1.inputFD = 3 THEN 4 ELSE 3)
        c2 == IF c1.exit # 0 \/ ~Redirects(cmd.background, cmd.oRedirect) THEN c1
              ELSE LET d == IF outFD = -1 THEN {"cannot open for output"} ELSE {}
                   IN  IF DupFailed(Dup2(outFD, 1))
                       THEN [c1 EXCEPT !.outputFD = outFD, !.diag = d, !.exit = 1]
                       ELSE [c1 EXCEPT !.outputFD = outFD, !.diag = d,
                                       !.fd1 = RedirectPath(cmd.oRedirect)]
        \* lines 239-243
    IN  IF c2.exit # 0 THEN c2
        ELSE IF env.exec THEN [c2 EXCEPT !.execd = TRUE]
        ELSE [c2 EXCEPT !.execd = TRUE, !.diag = {"perror"}, !.exit = 1]

\* the descriptors besides the standard streams that the child holds when it
\* calls execvp: those open() returned at lines 193-195 and 218-220; the
\* child calls close() nowhere, and the fcntl calls of lines 249-250 are made
\* by the parent, on its own inputFD and outputFD, which nobody wrote
OpenFds(c) == {c.inputFD, c.outputFD} \ {-1, 0}

Slots == 0..(JobSlots - 1)

Init ==
    /\ fgOnly = FALSE
    /\ pc = "prompt"
    /\ input = <<>>
    /\ fgOnlyArg = FALSE
    /\ commandLine = NullCommand
    /\ bgPids = [i \in Slots |-> 0]
    /\ statusText = "exit value"
    /\ statusCode = 0
    /\ proc = [p \in Pids |-> FreeProc]
    /\ childPid = 0
    /\ child = NoChild
    /\ out = <<>>
    /\ sigOut = <<>>
    /\ ended = "no"
    /\ killed = {}
    /\ expandedInput = <<>>
    /\ shellPid = ShellPid
    /\ SIGTSTP_action = "handler"
    /\ SIGINT_action = "ignore"

(***************************************************************************)
(* handle_SIGTSTP (src/main.c:36-50)                                       *)
(***************************************************************************)
ToggleMessage(flag) ==
    IF flag = FALSE THEN Msg("Entering foreground-only mode (& is now ignored)", 0, 0)
    ELSE Msg("Exiting foreground-only mode", 0, 0)

\* lines 39 and 45 without their assignments
Toggled_Kept(flag) == flag

Toggled(flag) == IF flag = FALSE THEN TRUE ELSE FALSE

\* the signal arrives while main is not blocked in the foreground waitpid
handle_SIGTSTP ==
    /\ ended = "no"
    /\ fgOnly' = Toggled(fgOnly)
    /\ sigOut' = <<ToggleMessage(fgOnly)>>
    /\ UNCHANGED <<attrs, expandedInput, pc, input, fgOnlyArg, commandLine, bgPids, statusText, statusCode,
                   proc, childPid, child, out, ended, killed>>

(***************************************************************************)
(* main, lines 500-510: getInput, expandVariable, parseInput.  A fault in  *)
(* parseInput (strlen(NULL)) either kills the interpreter or goes on with  *)
(* an indeterminate pointer in the field.                                  *)
(***************************************************************************)
ReadLine ==
    /\ pc = "prompt"
    /\ \E line \in Lines, survives \in BOOLEAN, pidString \in PidStrings(shellPid) :
         LET x == expandVariable(line, pidString)
             cmd == parseInput(x, fgOnly)
         IN  /\ input' = line
             /\ IF pidString = ABORT
                THEN /\ UNCHANGED <<expandedInput, fgOnlyArg, commandLine>>
                     /\ pc' = "ended" /\ ended' = "abort"
                ELSE /\ expandedInput' = x
                     /\ fgOnlyArg' = fgOnly
                     /\ commandLine' = cmd
                     /\ IF cmd.fault /\ ~survives
                        THEN pc' = "ended" /\ ended' = "segv"
                        ELSE pc' = "parsed" /\ ended' = ended
    /\ out' = <<Msg(": ", 0, 0)>>
    /\ UNCHANGED <<attrs, sigOut, fgOnly, bgPids, statusText, statusCode, proc, childPid, child,
                   killed>>

(***************************************************************************)
(* main, lines 514-529: the dispatch.                                      *)
(***************************************************************************)
\* line 514
Dispatches(cmd) ==
    cmd.command # NULL /\ cmd.command # <<" ">> /\ cmd.command[1] # "#"

IsBuiltin(cmd) == cmd.command \in Builtins

\* a blank line or a comment: nothing is dispatched
SkipLine ==
    /\ pc = "parsed"
    /\ ~Dispatches(commandLine)
    /\ pc' = "reap"
    /\ out' = <<>>
    /\ UNCHANGED <<attrs, expandedInput, sigOut, fgOnly, input, fgOnlyArg, commandLine, bgPids, statusText, statusCode,
                   proc, childPid, child, ended, killed>>

\* exitShell (src/main.c:119-133): the pids the while loop reaches
KillTargets(pids) == {pids[i] : i \in {j \in Slots : \A k \in 0..j : pids[k] > 0}}

exitShell ==
    /\ pc = "parsed"
    /\ Dispatches(commandLine)
    /\ commandLine.command = sExit
    /\ killed' = KillTargets(bgPids)
    /\ pc' = "ended"
    /\ ended' = "exit"
    /\ out' = <<>>
    /\ UNCHANGED <<attrs, expandedInput, sigOut, fgOnly, input, fgOnlyArg, commandLine, bgPids, statusText, statusCode,
                   proc, childPid, child>>

\* changeDirectory (src/main.c:141-149): chdir() moves the working directory
\* of the interpreter, which nothing else in main.c reads, and its result is
\* ignored
changeDirectory ==
    /\ pc = "parsed"
    /\ Dispatches(commandLine)
    /\ commandLine.command = sCd
    /\ pc' = "reap"
    /\ out' = <<>>
    /\ UNCHANGED <<attrs, expandedInput, sigOut, fgOnly, input, fgOnlyArg, commandLine, bgPids, statusText, statusCode,
                   proc, childPid, child, ended, killed>>

\* main, lines 521-524
statusBuiltin ==
    /\ pc = "parsed"
    /\ Dispatches(commandLine)
    /\ commandLine.command = sStatus
    /\ out' = <<Msg(statusText, 0, statusCode)>>
    /\ pc' = "reap"
    /\ UNCHANGED <<attrs, expandedInput, sigOut, fgOnly, input, fgOnlyArg, commandLine, bgPids, statusText, statusCode,
                   proc, childPid, child, ended, killed>>

(***************************************************************************)
(* executeCommand (src/main.c:159-286): fork.  The child runs lines        *)
(* 174-244 on its own copy of the struct; nothing it does there is seen by *)
(* the parent before it ends, so its side is taken at the fork.            *)
(***************************************************************************)
Fork ==
    /\ pc = "parsed"
    /\ Dispatches(commandLine)
    /\ ~IsBuiltin(commandLine)
    /\ Cardinality({i \in Slots : bgPids[i] \in Pids}) < MaxJobs
    /\ \E pid \in Pids, env \in Envs,
          i \in Read(commandLine.iRedirect), o \in Read(commandLine.oRedirect) :
         LET c == RunChild(pid, [commandLine EXCEPT !.iRedirect = i, !.oRedirect = o], env)
         IN  /\ proc[pid].st = "free"
             /\ childPid' = pid
             /\ child' = c
             /\ proc' = [proc EXCEPT ![pid] =
                            [st |-> IF c.exit # 0 THEN "exiting" ELSE "running",
                             bg |-> commandLine.background,
                             stored |-> FALSE,
                             status |-> NoStatus]]
    /\ pc' = "parent"
    /\ out' = <<>>
    /\ UNCHANGED <<attrs, expandedInput, sigOut, fgOnly, input, fgOnlyArg, commandLine, bgPids, statusText, statusCode,
                   ended, killed>>

\* lines 169-173: fork() returned -1
ForkFails ==
    /\ pc = "parsed"
    /\ Dispatches(commandLine)
    /\ ~IsBuiltin(commandLine)
    /\ childPid' = -1
    /\ out' = <<Msg("fork()", 0, 0)>>
    /\ pc' = "ended"
    /\ ended' = "fork"
    /\ UNCHANGED <<attrs, expandedInput, sigOut, fgOnly, input, fgOnlyArg, commandLine, bgPids, statusText, statusCode,
                   proc, child, killed>>

(***************************************************************************)
(* The children.                                                           *)
(***************************************************************************)
\* a child whose redirection or exec failed leaves with exit(1)
ChildExits(p) ==
    /\ ended = "no"
    /\ proc[p].st = "exiting"
    /\ proc' = [proc EXCEPT ![p].st = "zombie", ![p].status = Exited(1)]
    /\ UNCHANGED <<attrs, expandedInput, sigOut, fgOnly, pc, input, fgOnlyArg, commandLine, bgPids, statusText,
                   statusCode, childPid, child, out, ended, killed>>

\* the program the child became ends
ChildTerminates(p) ==
    /\ ended = "no"
    /\ proc[p].st = "running"
    /\ \E s \in EndStatuses :
         proc' = [proc EXCEPT ![p].st = "zombie", ![p].status = s]
    /\ UNCHANGED <<attrs, expandedInput, sigOut, fgOnly, pc, input, fgOnlyArg, commandLine, bgPids, statusText,
                   statusCode, childPid, child, out, ended, killed>>

(***************************************************************************)
(* executeCommand, the parent's side (src/main.c:245-284).                 *)
(***************************************************************************)
\* lines 259-265 with the search for an empty slot started at the far end
Register_Last(pids, pid) ==
    LET empty == {i \in Slots : pids[i] = 0}
    IN  IF empty = {} THEN pids
        ELSE [pids EXCEPT ![CHOOSE i \in empty : \A j \in empty : i >= j] = pid]

\* lines 259-265: the pid goes into the first empty slot, if there is one
Register(pids, pid) ==
    LET empty == {i \in Slots : pids[i] = 0}
    IN  IF empty = {} THEN pids
        ELSE [pids EXCEPT ![CHOOSE i \in empty : \A j \in empty : i <= j] = pid]

\* executeCommand returns to main: its locals are gone, and so is what the
\* model remembers of the child's start
Return == pc' = "reap" /\ childPid' = 0 /\ child' = NoChild

\* line 254 with the branches swapped
IsBackground_Swapped(cmd) == cmd.background = FALSE

\* line 254
IsBackground(cmd) == cmd.background = TRUE

\* lines 254-267; the waitpid(childPid, WNOHANG) of line 267 collects the
\* child if it has ended already
LaunchBackground ==
    /\ pc = "parent"
    /\ IsBackground(commandLine)
    /\ out' = <<Msg("background pid is", childPid, 0)>>
    /\ bgPids' = Register(bgPids, childPid)
    /\ IF proc[childPid].st = "zombie"
       THEN proc' = [proc EXCEPT ![childPid] = FreeProc]
       ELSE proc' = [proc EXCEPT ![childPid].stored = (Register(bgPids, childPid) # bgPids)]
    /\ Return
    /\ UNCHANGED <<attrs, expandedInput, sigOut, fgOnly, input, fgOnlyArg, commandLine, statusText, statusCode,
                   ended, killed>>

\* lines 271-282, on the status word waitpid wrote or left alone
StatusTextAfter(s, text) ==
    IF s.kind = "exited" THEN "exit value"
    ELSE IF s.kind = "signaled" THEN "terminated by signal" ELSE text

StatusCodeAfter(s, code) ==
    IF s.kind = "exited" THEN s.code
    ELSE IF s.kind = "signaled" THEN SigTermCode ELSE code

StatusOutput(s) ==
    IF s.kind = "signaled" THEN <<Msg("terminated by signal", 0, SigTermCode)>> ELSE <<>>

\* lines 269-282: the blocking waitpid returns the child
ForegroundWait ==
    /\ pc = "parent"
    /\ ~IsBackground(commandLine)
    /\ proc[childPid].st = "zombie"
    /\ statusText' = StatusTextAfter(proc[childPid].status, statusText)
    /\ statusCode' = StatusCodeAfter(proc[childPid].status, statusCode)
    /\ out' = StatusOutput(proc[childPid].status)
    /\ proc' = [proc EXCEPT ![childPid] = FreeProc]
    /\ Return
    /\ UNCHANGED <<attrs, expandedInput, sigOut, fgOnly, input, fgOnlyArg, commandLine, bgPids, ended, killed>>

\* SIGTSTP arrives while main is blocked in the waitpid of line 269: the
\* handler is installed without SA_RESTART (line 465), so after it ran
\* waitpid returns -1 (EINTR) and lines 271-282 read a childStatus that
\* nobody wrote
ForegroundWaitInterrupted ==
    /\ pc = "parent"
    /\ ~IsBackground(commandLine)
    /\ proc[childPid].st # "zombie"
    /\ fgOnly' = Toggled(fgOnly)
    /\ \E s \in IndeterminateStatuses :
         /\ statusText' = StatusTextAfter(s, statusText)
         /\ statusCode' = StatusCodeAfter(s, statusCode)
         /\ out' = StatusOutput(s)
    /\ sigOut' = <<ToggleMessage(fgOnly)>>
    /\ Return
    /\ UNCHANGED <<attrs, expandedInput, input, fgOnlyArg, commandLine, bgPids, proc, ended, killed>>

(***************************************************************************)
(* checkBackground (src/main.c:87-113), then the frees of lines 535-538.   *)
(***************************************************************************)
BackgroundReport(p, s) ==
    IF s.kind = "exited" THEN <<Msg("background pid is done: exit value", p, s.code)>>
    ELSE <<Msg("background pid is done: terminated by signal", p, s.code)>>

\* lines 107-111
Unregister(pids, pid) == [i \in Slots |-> IF pids[i] = pid THEN 0 ELSE pids[i]]

Zombies == {p \in Pids : proc[p].st = "zombie"}

\* clearStruct (src/main.c:57-81) hands free() a pointer that malloc never
\* returned
FreesGarbage(cmd, i, o) == cmd.command # NULL /\ (i = GARBAGE \/ o = GARBAGE)

checkBackground ==
    /\ pc = "reap"
    /\ \/ /\ Zombies = {}
          /\ out' = <<>>
          /\ UNCHANGED <<proc, bgPids>>
       \/ \E p \in Zombies :
            /\ out' = BackgroundReport(p, proc[p].status)
            /\ bgPids' = Unregister(bgPids, p)
            /\ proc' = [proc EXCEPT ![p] = FreeProc]
    /\ \E survives \in BOOLEAN,
          i \in Read(commandLine.iRedirect), o \in Read(commandLine.oRedirect) :
         IF FreesGarbage(commandLine, i, o) /\ ~survives
         THEN pc' = "ended" /\ ended' = "segv"
         ELSE pc' = "prompt" /\ ended' = ended
    /\ input' = <<>>
    /\ expandedInput' = <<>>
    /\ fgOnlyArg' = FALSE
    /\ commandLine' = NullCommand
    /\ UNCHANGED <<attrs, sigOut, fgOnly, statusText, statusCode, childPid, child, killed>>

Next ==
    \/ handle_SIGTSTP
    \/ ReadLine
    \/ SkipLine
    \/ exitShell
    \/ changeDirectory
    \/ statusBuiltin
    \/ Fork
    \/ ForkFails
    \/ \E p \in Pids : ChildExits(p)
    \/ \E p \in Pids : ChildTerminates(p)
    \/ LaunchBackground
    \/ ForegroundWait
    \/ ForegroundWaitInterrupted
    \/ checkBackground

Spec == Init /\ [][Next]_vars

(***************************************************************************)
(* The interpreter with JobSlots - 1 background children that were         *)
(* launched earlier and run on (sleep in the background): they hold the    *)
(* slots 0..JobSlots-2 under pids above MaxPid, and one slot is empty.     *)
(***************************************************************************)
EarlierJob(i) == MaxPid + 1 + i

InitFull ==
    /\ fgOnly = FALSE
    /\ pc = "prompt"
    /\ input = <<>>
    /\ fgOnlyArg = FALSE
    /\ commandLine = NullCommand
    /\ bgPids = [i \in Slots |-> IF i < JobSlots - 1 THEN EarlierJob(i) ELSE 0]
    /\ statusText = "exit value"
    /\ statusCode = 0
    /\ proc = [p \in Pids |-> FreeProc]
    /\ childPid = 0
    /\ child = NoChild
    /\ out = <<>>
    /\ sigOut = <<>>
    /\ ended = "no"
    /\ killed = {}
    /\ expandedInput = <<>>
    /\ shellPid = ShellPid
    /\ SIGTSTP_action = "handler"
    /\ SIGINT_action = "ignore"

SpecFull == InitFull /\ [][Next]_vars

(***************************************************************************)
(* parseInput on its own: every raw line of up to MaxChars characters, as  *)
(* fgets delivers it, and the lines that fill args, under either value of  *)
(* the flag.                                                               *)
(***************************************************************************)
RawChars == {"a", "<", ">", "&", " "}
RawLines == {l \o <<"\n">> : l \in UNION {[1..n -> RawChars] : n \in 0..MaxChars}}

\* lines that fill args: n times "a ", then nothing or a redirect
LongLine(n) == [i \in 1..(2 * n) |-> IF i % 2 = 1 THEN "a" ELSE " "]
LongLines ==
    {LongLine(n) \o t \o <<"\n">> :
        n \in {ArgsSize - 1, ArgsSize}, t \in {<<>>, sLt \o <<" ">> \o sFile}}

InitParse ==
    /\ fgOnly \in BOOLEAN
    /\ pc = "raw"
    /\ input \in RawLines \cup LongLines
    /\ fgOnlyArg = FALSE
    /\ commandLine = NullCommand
    /\ bgPids = [i \in Slots |-> 0]
    /\ statusText = "exit value"
    /\ statusCode = 0
    /\ proc = [p \in Pids |-> FreeProc]
    /\ childPid = 0
    /\ child = NoChild
    /\ out = <<>>
    /\ sigOut = <<>>
    /\ ended = "no"
    /\ killed = {}
    /\ expandedInput = <<>>
    /\ shellPid = ShellPid
    /\ SIGTSTP_action = "handler"
    /\ SIGINT_action = "ignore"

\* main, lines 506-510, on the line at hand
ParseRaw ==
    /\ pc = "raw"
    /\ \E survives \in BOOLEAN, pidString \in PidStrings(shellPid) :
         LET x == expandVariable(input, pidString)
             cmd == parseInput(x, fgOnly)
         IN  IF pidString = ABORT
             THEN /\ UNCHANGED <<expandedInput, fgOnlyArg, commandLine>>
                  /\ pc' = "ended" /\ ended' = "abort"
             ELSE /\ expandedInput' = x
                  /\ fgOnlyArg' = fgOnly
                  /\ commandLine' = cmd
                  /\ IF cmd.fault /\ ~survives
                     THEN pc' = "ended" /\ ended' = "segv"
                     ELSE pc' = "parsed" /\ ended' = ended
    /\ UNCHANGED <<attrs, fgOnly, input, bgPids, statusText, statusCode, proc, childPid, child,
                   out, sigOut, killed>>

SpecParse == InitParse /\ [][ParseRaw]_vars

(***************************************************************************)
(* expandVariable on its own: every text of up to MaxExpand characters     *)
(* under pids of one to six digits, and its result handed to it again.     *)
(***************************************************************************)
ExpandChars == {"$", "a"}
ExpandInputs == UNION {[1..n -> ExpandChars] : n \in 0..MaxExpand}
ShellPids == {7, 42, 1234, 123456}

InitExpand ==
    /\ fgOnly = FALSE
    /\ pc = "expand"
    /\ input \in ExpandInputs
    /\ fgOnlyArg = FALSE
    /\ commandLine = NullCommand
    /\ bgPids = [i \in Slots |-> 0]
    /\ statusText = "exit value"
    /\ statusCode = 0
    /\ proc = [p \in Pids |-> FreeProc]
    /\ childPid = 0
    /\ child = NoChild
    /\ out = <<>>
    /\ sigOut = <<>>
    /\ ended = "no"
    /\ killed = {}
    /\ expandedInput = <<>>
    /\ shellPid \in ShellPids
    /\ SIGTSTP_action = "handler"
    /\ SIGINT_action = "ignore"

\* main, line 506, on the text at hand
ExpandRaw ==
    /\ pc = "expand"
    /\ \E pidString \in PidStrings(shellPid) :
         IF pidString = ABORT
         THEN /\ pc' = "ended" /\ ended' = "abort"
              /\ UNCHANGED expandedInput
         ELSE /\ pc' = "expanded" /\ ended' = ended
              /\ expandedInput' = expandVariable(input, pidString)
    /\ UNCHANGED <<attrs, fgOnly, input, fgOnlyArg, commandLine, bgPids, statusText,
                   statusCode, proc, childPid, child, out, sigOut, killed>>

\* expandVariable on the text it returned
ExpandAgain ==
    /\ pc = "expanded"
    /\ \E pidString \in PidStrings(shellPid) :
         IF pidString = ABORT
         THEN /\ pc' = "ended" /\ ended' = "abort"
              /\ UNCHANGED <<input, expandedInput>>
         ELSE /\ pc' = "again" /\ ended' = ended
              /\ input' = expandedInput
              /\ expandedInput' = expandVariable(expandedInput, pidString)
    /\ UNCHANGED <<attrs, fgOnly, fgOnlyArg, commandLine, bgPids, statusText,
                   statusCode, proc, childPid, child, out, sigOut, killed>>

SpecExpand == InitExpand /\ [][ExpandRaw \/ ExpandAgain]_vars

(***************************************************************************)
(* Properties.                                                             *)
(***************************************************************************)
Live == commandLine.command # NULL
HasToken(line, t) == \E k \in 1..Len(Tokens(line, 1)) : Tokens(line, 1)[k] = t
LastToken(line) == Tokens(line, 1)[Len(Tokens(line, 1))]
CannotOpen(c) == c.diag \cap {"cannot open for input", "cannot open for output"} # {}
\* this step collects child p: waitpid returned it
Collects(p) == proc[p].st = "zombie" /\ proc'[p].st = "free"
\* this step is executeCommand's return from its foreground branch
ForegroundReturn == pc = "parent" /\ ~commandLine.background /\ pc' # "parent"

\* C1: a background child that has ended is collected only by a reap pass,
\* which prints its "background pid <pid> is done" report and leaves its pid
\* in no slot of the job table
C1_ReapedByReapPass ==
    [][\A p \in Pids :
         (proc[p].bg /\ Collects(p)) =>
             /\ pc = "reap"
             /\ out' = BackgroundReport(p, proc[p].status)
             /\ \A i \in Slots : bgPids'[i] # p]_vars

\* C2: the live command's background field is never true while the
\* foreground-only flag is set
C2_NeverBackgroundWhileFgOnly == ~(Live /\ commandLine.background /\ fgOnly)

\* C2, amended: background is true only if the flag was false when parseInput
\* was called, and the flag becomes set under a background command only by a
\* run of the handler that leaves the command as it is
C2_BackgroundOnlyIfFlagWasClear ==
    /\ [](Live /\ commandLine.background => fgOnlyArg = FALSE)
    /\ [][(Live' /\ commandLine'.background /\ fgOnly'
             /\ ~(Live /\ commandLine.background /\ fgOnly))
          => (commandLine' = commandLine /\ fgOnly = FALSE
                /\ sigOut' = <<ToggleMessage(FALSE)>>)]_vars

C2_Witness == Live /\ commandLine.background /\ fgOnly /\ pc = "parsed"

C4_ForegroundWaitsForChild == [][ForegroundReturn => Collects(childPid)]_vars

\* C5: the shell status starts as ("exit value", 0), a completed foreground
\* wait sets it to the child's outcome, and no other step changes it
C5_StatusFollowsForeground ==
    /\ statusText = "exit value" /\ statusCode = 0
    /\ [][IF ForegroundReturn /\ Collects(childPid)
          THEN /\ statusText' = StatusTextAfter(proc[childPid].status, statusText)
               /\ statusCode' = StatusCodeAfter(proc[childPid].status, statusCode)
          ELSE UNCHANGED <<statusText, statusCode>>]_vars

\* C6: after the exit built-in every pid of the job table that is the pid of
\* a child has been sent the kill signal
C6_ExitKillsEveryJob ==
    ended = "exit" =>
        \A i \in Slots :
            (bgPids[i] # 0 /\ proc[bgPids[i]].st # "free") => bgPids[i] \in killed

\* C7: with background children only, a reap pass leaves no child behind
\* that had ended before it
C7_ReapPassCollectsAll ==
    [][(pc = "reap" /\ pc' # "reap" /\ \A q \in Pids : proc[q].st # "free" => proc[q].bg)
       => \A p \in Pids : proc[p].st = "zombie" => Collects(p)]_vars

C9_OnlyExitOrForkEnds == ended \in {"no", "exit", "fork"}

\* C10: parseInput sets background only if & is the last token of the line
\* and the flag is false
C10_OnlyFinalAmpersand ==
    (pc = "parsed" /\ commandLine.background)
        => (fgOnlyArg = FALSE /\ LastToken(expandedInput) = sAmp)

\* C11: no nonzero pid is in more than one slot of the job table
C11_NoPidInTwoSlots ==
    \A i \in Slots : \A j \in Slots :
        (i # j /\ bgPids[i] # 0) => bgPids[i] # bgPids[j]

TableFull == \A i \in Slots : bgPids[i] # 0

\* C12: with every slot of the job table occupied, a background launch
\* starts the child, prints its notice and leaves the table as it is; the
\* reap pass that collects a child whose pid was not stored reports it and
\* leaves every slot as it is
C12_FullTableLaunchAndReap ==
    [][/\ (pc = "parent" /\ commandLine.background /\ pc' # "parent" /\ TableFull)
          => /\ proc[childPid].st # "free"
             /\ out' = <<Msg("background pid is", childPid, 0)>>
             /\ bgPids' = bgPids
       /\ \A p \in Pids :
            (pc = "reap" /\ Collects(p) /\ proc[p].bg /\ ~proc[p].stored)
                => /\ out' = BackgroundReport(p, proc[p].status)
                   /\ bgPids' = bgPids]_vars

\* the line named a path for the stream
PathGiven(redirect) == redirect \notin {NULL, UNINIT, GARBAGE}
WiredTo(redirect, background) ==
    IF PathGiven(redirect) THEN redirect
    ELSE IF background THEN sDevNull ELSE INHERIT

\* C13: at execvp each standard stream of the child is on the path the line
\* named for it, else on the null device if the command is a background
\* command, else as inherited from the interpreter
C13_StreamWiring ==
    (child.pid # 0 /\ child.execd) =>
        /\ child.fd0 = WiredTo(commandLine.iRedirect, commandLine.background)
        /\ child.fd1 = WiredTo(commandLine.oRedirect, commandLine.background)

\* C14: when it calls execvp a child ignores SIGTSTP; it has the default
\* disposition of SIGINT if its command has background = false and ignores
\* SIGINT otherwise; the interpreter ignores SIGINT in every state
C14_SignalDispositions ==
    /\ SIGINT_action = "ignore"
    /\ (child.pid # 0 /\ child.execd) =>
          /\ child.sigtstp = "ignore"
          /\ child.sigint = "default" <=> commandLine.background = FALSE
          /\ commandLine.background = TRUE => child.sigint = "ignore"

C14_Witness ==
    /\ child.pid # 0
    /\ child.execd
    /\ commandLine.background = TRUE
    /\ child.sigint = "ignore"
    /\ child.sigtstp = "ignore"
    /\ proc[child.pid].st = "running"

\* C15: the flag starts false; a step changes it exactly if the handler
\* runs in it, the handler then writes the message of the new value of the
\* flag, and the new value is the opposite of the old one
C15_FlagToggledOnlyByHandler ==
    /\ fgOnly = FALSE
    /\ [][/\ (fgOnly' # fgOnly) <=> (sigOut' # sigOut)
          /\ (fgOnly' # fgOnly) =>
                /\ fgOnly' = ~fgOnly
                /\ Len(sigOut') = 1
                /\ sigOut'[1].text = IF fgOnly'
                      THEN "Entering foreground-only mode (& is now ignored)"
                      ELSE "Exiting foreground-only mode"]_vars

C15_Witness ==
    /\ fgOnly = FALSE
    /\ sigOut = <<Msg("Exiting foreground-only mode", 0, 0)>>
    /\ pc = "parent"

HasMarker(s) == \E k \in 1..(Len(s) - 1) : s[k] = "$" /\ s[k + 1] = "$"

\* C16: expandVariable returns its input with every "$$" of a left to right
\* scan replaced by the decimal text of the pid; the length of the result
\* is that of the input plus, for each "$$", the digits of the pid less
\* two; an input without "$$" comes back unchanged
C16_ExpansionResult ==
    (pc = "expanded" \/ (pc = "ended" /\ expandedInput = <<>>)) =>
        /\ ended = "no"
        /\ expandedInput = ExpandFrom(input, 1, Decimal(shellPid))
        /\ Len(expandedInput)
              = Len(input) + CountFrom(input, 1) * (Len(Decimal(shellPid)) - 2)
        /\ ~HasMarker(input) => expandedInput = input

\* C17: the text expandVariable returns has no "$$", and expandVariable
\* returns it unchanged
C17_ExpansionIdempotent ==
    /\ pc = "expanded" => ~HasMarker(expandedInput)
    /\ pc = "again" => expandedInput = input

C17_Witness ==
    /\ pc = "again"
    /\ shellPid = 42
    /\ input = <<"4", "2", "$">>
    /\ expandedInput = input

\* the tokens of a line before its first operator
FirstOperator(toks) ==
    IF \E k \in 2..Len(toks) : IsOperator(toks[k])
    THEN CHOOSE k \in 2..Len(toks) :
            toks[k] \in {sLt, sGt, sAmp} /\ \A j \in 2..(k - 1) : toks[j] \notin {sLt, sGt, sAmp}
    ELSE Len(toks) + 1

\* C18: for a line with a token, args[0] is the name, the elements after it
\* are the tokens that follow up to the first of <, >, & or the end of the
\* line, and the element after those is the null pointer; a line without a
\* token gives no command
C18_ArgumentVector ==
    pc \in {"parsed", "ended"} =>
        LET toks == Tokens(expandedInput, 1)
        IN  IF toks = <<>> THEN commandLine = NullCommand
            ELSE /\ commandLine.command = toks[1]
                 /\ Argv(commandLine)
                       = SubSeq(toks, 1, FirstOperator(toks) - 1) \o <<NULL>>

\* C19: when the child calls execvp, the descriptor it opened for a stream
\* that the line redirects, or that a background command has on the null
\* device, is closed: the child holds the target as its standard stream only
C19_NoDescriptorLeak ==
    (child.pid # 0 /\ child.execd) =>
        /\ (PathGiven(commandLine.iRedirect) \/ commandLine.background)
              => child.inputFD \notin OpenFds(child)
        /\ (PathGiven(commandLine.oRedirect) \/ commandLine.background)
              => child.outputFD \notin OpenFds(child)

\* C20: executeCommand's background branch prints "background pid is
\* <pid>", stores the pid in the empty slot of lowest index and changes no
\* other slot, and returns from every state of the child: it can always
\* take its step, and it takes it without collecting a child that runs
C20_BackgroundLaunch ==
    /\ [](pc = "parent" /\ commandLine.background => ENABLED LaunchBackground)
    /\ [][(pc = "parent" /\ commandLine.background /\ pc' # "parent") =>
            /\ out' = <<Msg("background pid is", childPid, 0)>>
            /\ pc' = "reap"
            /\ proc[childPid].st = "running" => proc'[childPid].st = "running"
            /\ \A i \in Slots :
                 bgPids'[i] = IF bgPids[i] = 0 /\ \A j \in 0..(i - 1) : bgPids[j] # 0
                              THEN childPid ELSE bgPids[i]]_vars

C20_Witness ==
    /\ pc = "reap"
    /\ out = <<Msg("background pid is", 2, 0)>>
    /\ bgPids[0] = 1 /\ bgPids[1] = 2
    /\ proc[2].st = "running" /\ proc[2].bg

\* C21: for every line fgets delivers, parseInput writes at most ArgsSize
\* elements from args[0] on, the null pointer counted in
C21_ArgsWithinCapacity ==
    pc \in {"parsed", "ended"} => ArgsCount(Tokens(expandedInput, 1)) <= ArgsSize

\* C22: the child a reap pass collects and reports as a background pid
\* was launched with background = true
C22_ReapPassCollectsBackgroundOnly ==
    [][\A p \in Pids :
         (pc = "reap" /\ Collects(p) /\ out' = BackgroundReport(p, proc[p].status))
             => proc[p].bg]_vars

====
